---- MODULE Spec2Model ----
(***************************************************************************)
(* Settlement reconciliation engine (pipeline/reconcile.py, fees.py,       *)
(* config.py).  One run of reconcile_transactions is a sequence of stages  *)
(* over two in-memory frames; every stage is one action.                   *)
(*                                                                         *)
(* Representation                                                          *)
(*   - A DataFrame is [columns |-> set of names, rows |-> sequence of      *)
(*     records].  A nullable cell is <<>> (NaN / NaT / None) or <<v>>.     *)
(*   - Money is an integer number of 1/1000 of a currency unit, so that    *)
(*     a percentage fee of a whole-unit amount is exact.                   *)
(*   - A float that results from a division is a reduced fraction          *)
(*     [n, d] with d >= 0; d = 0 encodes +inf (n = 1) and -inf (n = -1);   *)
(*     0/0 is NaN.                                                         *)
(*   - Timestamps are whole hours since an epoch.                          *)
(***************************************************************************)
EXTENDS Integers, Sequences, FiniteSets, TLC

VARIABLES data_files, pc, raised, transactions_df, settlements_df,
          reconciled_df, ghost_settlements,
          call,            \* the last stage call: its arguments before and after
          now,             \* the wall clock
          run,             \* "first" or "second" call of reconcile_transactions
          first_outputs,   \* what the first call returned
          main_pc,         \* position in run_full_pipeline ("direct": not used)
          skip_generate,   \* the --skip-generate flag
          exit_status,     \* status passed to sys.exit, NaN while running
          output_files,    \* reconciled_data.csv and ghost_settlements.csv
          analysis_pc,     \* position in analyze_revenue_anomalies
          analysis_df,     \* the frame the analysis loaded and works on
          analysis_results \* what the analysis functions returned so far

\* the variables that only run_full_pipeline and a repeated call change
analysis_vars == <<analysis_pc, analysis_df, analysis_results>>

program_vars == <<now, run, first_outputs, main_pc, skip_generate, exit_status,
                  output_files, analysis_vars>>

vars == <<data_files, pc, raised, transactions_df, settlements_df,
          reconciled_df, ghost_settlements, call, program_vars>>

\* ------------------------------------------------------------------ bounds
\* Largest number of transactions / settlements in a batch of the
\* multi-row family of inputs.
MaxTxns == 2
MaxSettlements == 2

\* ------------------------------------------------------- null and numbers
NaN == <<>>

notna(x) == x # NaN

isna(x) == x = NaN

Abs(x) == IF x < 0 THEN -x ELSE x

RECURSIVE Gcd(_, _)
Gcd(a, b) == IF b = 0 THEN a ELSE Gcd(b, a % b)

\* IEEE division num / den of two finite values, as a nullable float cell.
Reduce(num, den) ==
    IF den = 0
    THEN IF num = 0 THEN NaN
         ELSE <<[n |-> (IF num > 0 THEN 1 ELSE -1), d |-> 0]>>
    ELSE LET g == Gcd(Abs(num), Abs(den))
             s == IF den < 0 THEN -1 ELSE 1
         IN  <<[n |-> s * (num \div g), d |-> s * (den \div g)]>>

FloatDiv(num, den) == Reduce(num, den)

\* abs(f) > t for a float f = [n, d] and an integer t
AbsFloatGreater(f, t) == Abs(f.n) > t * f.d

\* ------------------------------------------------------------- config.py
CARD_FEE_PERCENT == 29
CARD_FEE_FIXED == 300
BANK_FEE_PERCENT == 15
VOUCHER_FEE_PERCENT == 35

CARD_SETTLEMENT_MIN == 2
CARD_SETTLEMENT_MAX == 3
CARD_SETTLEMENT_THRESHOLD == 5
BANK_SETTLEMENT_MIN == 5
BANK_SETTLEMENT_MAX == 7
BANK_SETTLEMENT_THRESHOLD == 10
VOUCHER_SETTLEMENT_MIN == 3
VOUCHER_SETTLEMENT_MAX == 5
VOUCHER_SETTLEMENT_THRESHOLD == 8

\* exchange rates to USD, in 1/100000 (0.20 = 20000)
BRL_TO_USD == 20000
MXN_TO_USD == 5500
COP_TO_USD == 25
CLP_TO_USD == 110

get_exchange_rate_zero_default(currency) ==
    CASE currency = "BRL" -> BRL_TO_USD
      [] currency = "MXN" -> MXN_TO_USD
      [] currency = "COP" -> COP_TO_USD
      [] currency = "CLP" -> CLP_TO_USD
      [] currency = "USD" -> 100000
      [] OTHER -> 0

get_exchange_rate(currency) ==
    CASE currency = "BRL" -> BRL_TO_USD
      [] currency = "MXN" -> MXN_TO_USD
      [] currency = "COP" -> COP_TO_USD
      [] currency = "CLP" -> CLP_TO_USD
      [] currency = "USD" -> 100000
      [] OTHER -> 100000

get_settlement_timing_flat_default(payment_method) ==
    IF payment_method \in {"credit_card", "debit_card"}
    THEN <<CARD_SETTLEMENT_MIN, CARD_SETTLEMENT_MAX, CARD_SETTLEMENT_THRESHOLD>>
    ELSE IF payment_method = "bank_transfer"
    THEN <<BANK_SETTLEMENT_MIN, BANK_SETTLEMENT_MAX, BANK_SETTLEMENT_THRESHOLD>>
    ELSE IF payment_method = "cash_voucher"
    THEN <<VOUCHER_SETTLEMENT_MIN, VOUCHER_SETTLEMENT_MAX, VOUCHER_SETTLEMENT_THRESHOLD>>
    ELSE <<5, 5, 5>>

get_settlement_timing(payment_method) ==
    IF payment_method \in {"credit_card", "debit_card"}
    THEN <<CARD_SETTLEMENT_MIN, CARD_SETTLEMENT_MAX, CARD_SETTLEMENT_THRESHOLD>>
    ELSE IF payment_method = "bank_transfer"
    THEN <<BANK_SETTLEMENT_MIN, BANK_SETTLEMENT_MAX, BANK_SETTLEMENT_THRESHOLD>>
    ELSE IF payment_method = "cash_voucher"
    THEN <<VOUCHER_SETTLEMENT_MIN, VOUCHER_SETTLEMENT_MAX, VOUCHER_SETTLEMENT_THRESHOLD>>
    ELSE <<2, 5, 7>>

\* --------------------------------------------------------------- fees.py
\* The percentages are stored in tenths of a percent (2.9% = 29), hence
\* the division by 1000 instead of 100.
calculate_card_fee_percent_only(amount) == (amount * CARD_FEE_PERCENT) \div 1000

calculate_card_fee(amount) == (amount * CARD_FEE_PERCENT) \div 1000 + CARD_FEE_FIXED

calculate_bank_fee(amount) == (amount * BANK_FEE_PERCENT) \div 1000

calculate_voucher_fee(amount) == (amount * VOUCHER_FEE_PERCENT) \div 1000

calculate_fee(amount, payment_method) ==
    IF payment_method \in {"credit_card", "debit_card"}
    THEN calculate_card_fee(amount)
    ELSE IF payment_method = "bank_transfer"
    THEN calculate_bank_fee(amount)
    ELSE IF payment_method = "cash_voucher"
    THEN calculate_voucher_fee(amount)
    ELSE calculate_card_fee(amount)

calculate_expected_settlement_gross(amount, payment_method) == amount

calculate_expected_settlement(amount, payment_method) ==
    amount - calculate_fee(amount, payment_method)

\* amount * rate, in 1/100000 of a dollar (amount in thousandths, rate in
\* 1/100000); the product is taken in two parts to stay within 32 bits
convert_to_usd(amount, currency) ==
    LET rate == get_exchange_rate(currency)
    IN  (amount \div 1000) * rate + ((amount % 1000) * rate) \div 1000

\* round(x, 2) of a dollar value given in 1/100000: whole cents, a tie
\* going to the even cent
Round2(usd) ==
    LET q == usd \div 1000
        r == usd % 1000
    IN  IF r > 500 \/ (r = 500 /\ q % 2 = 1) THEN q + 1 ELSE q

\* ------------------------------------------------------ frames and rows
Frame(cols, rws) == [columns |-> cols, rows |-> rws]

EmptyFrame == Frame({}, <<>>)

\* row with column c set to v (added when absent, overwritten otherwise)
WithColumn(row, c, v) ==
    [k \in (DOMAIN row) \cup {c} |-> IF k = c THEN v ELSE row[k]]

WithoutColumn(row, c) == [k \in (DOMAIN row) \ {c} |-> row[k]]

\* df[c] = f(row) for every row
AssignColumn(df, c, f(_)) ==
    Frame(df.columns \cup {c},
          [i \in 1..Len(df.rows) |-> WithColumn(df.rows[i], c, f(df.rows[i]))])

\* The object passed to a stage, after the stage assigned its columns: the
\* assignments reach it when the stage works on the object itself, and do
\* not when the stage works on df.copy().
InPlace(df, result) == result

OnCopy(df, result) == df

StageCall(stage, before, after) == [stage |-> stage, before |-> before, after |-> after]

NoCall == StageCall("none", <<>>, <<>>)

\* nothing returned yet by any analysis function
NoResults == [metrics |-> NaN, categories |-> NaN, patterns |-> NaN,
              anomalies |-> NaN, insights |-> NaN, saved |-> FALSE]

NoOutputs == [exists |-> FALSE, reconciled |-> EmptyFrame, ghosts |-> EmptyFrame]

\* reconciled_data.csv written, ghost_settlements.csv not
ReconciledOnly(df) == [exists |-> FALSE, reconciled |-> df, ghosts |-> EmptyFrame]

Outputs(df, ghosts) == [exists |-> TRUE, reconciled |-> df, ghosts |-> ghosts]

DropColumn(df, c) ==
    Frame(df.columns \ {c},
          [i \in 1..Len(df.rows) |-> WithoutColumn(df.rows[i], c)])

RECURSIVE Concat(_)
Concat(seqs) == IF seqs = <<>> THEN <<>> ELSE Head(seqs) \o Concat(Tail(seqs))

ColumnValues(df, c) == {df.rows[i][c] : i \in 1..Len(df.rows)}


\* ------------------------------------------------------------ the inputs
\* Identifiers are issued by a counter (generate_data.py), so they are
\* unique within a file; a settlement may reference any transaction
\* identifier, also one that is not in the batch or one that another
\* settlement references already.
TxnIdOf == <<"TXN_001", "TXN_002", "TXN_003", "TXN_004">>

SettlementIdOf == <<"SET_001", "SET_002", "SET_003", "SET_004">>

GhostTxnId == "TXN_999"

ReferencedIds == {TxnIdOf[i] : i \in 1..MaxTxns} \cup {GhostTxnId}

Cents(c) == c * 10

TransactionColumns ==
    {"transaction_id", "timestamp", "amount", "currency", "status",
     "provider", "payment_method", "country", "customer_id"}

SettlementColumns ==
    {"settlement_id", "transaction_id", "settlement_date", "settled_amount",
     "currency", "provider"}

Statuses ==
    {"authorized", "captured", "declined", "refunded", "chargedback", "pending"}

PaymentMethods ==
    {"credit_card", "debit_card", "bank_transfer", "cash_voucher", "crypto"}

Amounts == {0, Cents(10000), Cents(100000)}

Timestamps == {240, 250}

SettledAmounts ==
    {0, Cents(8850), Cents(9680), Cents(9750), Cents(9850), Cents(10850),
     Cents(97515), Cents(98300)}

SettlementDates == {238, 370, 418, 456, 490, 514}

TransactionRow(i, ts, amt, cur, st, pm) ==
    [transaction_id |-> TxnIdOf[i], timestamp |-> ts, amount |-> amt,
     currency |-> cur, status |-> st, provider |-> "PayBridge",
     payment_method |-> pm, country |-> "Brazil", customer_id |-> "CUST_001"]

\* what the provider reports as its own name and currency: the values of
\* the transaction, or different ones
SettlementOrigins ==
    {[provider |-> "PayBridge", currency |-> "BRL"],
     [provider |-> "LatamPay", currency |-> "MXN"]}

SettlementRow(j, ref, sd, amt, origin) ==
    [settlement_id |-> SettlementIdOf[j], transaction_id |-> ref,
     settlement_date |-> sd, settled_amount |-> amt,
     currency |-> origin.currency, provider |-> origin.provider]

\* Family 1: one transaction with every combination of field values and at
\* most one settlement with every combination of field values.
SingleTransactions ==
    { <<TransactionRow(1, ts, amt, "BRL", st, pm)>> :
        ts \in Timestamps, amt \in Amounts, st \in Statuses, pm \in PaymentMethods }

SingleSettlements ==
    {<<>>} \cup
    { <<SettlementRow(1, ref, sd, sa, o)>> :
        ref \in {TxnIdOf[1], GhostTxnId}, sd \in SettlementDates,
        sa \in SettledAmounts, o \in SettlementOrigins }

\* Family 2: up to MaxTxns transactions and up to MaxSettlements settlements
\* over fewer field values, with every pattern of references.
MultiTxnFields ==
    [status : {"captured", "authorized", "refunded"},
     payment_method : {"credit_card"},
     currency : {"BRL", "ARS"}]

MultiSettlementFields ==
    [ref : ReferencedIds, settled_amount : {Cents(8850)}]

MultiTransactions(tf) ==
    [i \in DOMAIN tf |-> TransactionRow(i, 240, Cents(10000), tf[i].currency,
                                        tf[i].status, tf[i].payment_method)]

MultiSettlements(sf) ==
    [j \in DOMAIN sf |-> SettlementRow(j, sf[j].ref, 370, sf[j].settled_amount,
                                       [provider |-> "PayBridge", currency |-> "BRL"])]

CsvFile(rws) == [exists |-> TRUE, rows |-> rws]

NoFile == [exists |-> FALSE, rows |-> <<>>]

Init ==
    /\ \/ \E t \in SingleTransactions, ss \in SingleSettlements :
            data_files = [transactions |-> CsvFile(t), settlements |-> CsvFile(ss)]
       \/ \E n \in 0..MaxTxns, m \in 0..MaxSettlements :
            \E tf \in [1..n -> MultiTxnFields], sf \in [1..m -> MultiSettlementFields] :
                data_files = [transactions |-> CsvFile(MultiTransactions(tf)),
                              settlements |-> CsvFile(MultiSettlements(sf))]
       \/ \E m \in 0..MaxSettlements : \E sf \in [1..m -> MultiSettlementFields] :
            data_files = [transactions |-> NoFile,
                          settlements |-> CsvFile(MultiSettlements(sf))]
       \/ \E n \in 0..MaxTxns : \E tf \in [1..n -> MultiTxnFields] :
            data_files = [transactions |-> CsvFile(MultiTransactions(tf)),
                          settlements |-> NoFile]
    /\ pc = "load_data"
    /\ raised = "none"
    /\ transactions_df = EmptyFrame
    /\ settlements_df = EmptyFrame
    /\ reconciled_df = EmptyFrame
    /\ ghost_settlements = EmptyFrame
    /\ call = NoCall
    /\ now = 1000
    /\ run = "first"
    /\ first_outputs = NoOutputs
    /\ main_pc = "direct"
    /\ skip_generate = FALSE
    /\ exit_status = NaN
    /\ output_files = NoOutputs
    /\ analysis_pc = "idle"
    /\ analysis_df = EmptyFrame
    /\ analysis_results = NoResults


\* ----------------------------------------------------------- reconcile.py
\* load_data: a missing file is re-raised as FileNotFoundError; otherwise
\* both files are read and the date columns converted.
load_data_raises_transactions_only == ~data_files.transactions.exists

load_data_raises == ~data_files.transactions.exists \/ ~data_files.settlements.exists

LoadData ==
    /\ pc = "load_data"
    /\ IF load_data_raises
       THEN /\ pc' = "raised"
            /\ raised' = "FileNotFoundError"
            /\ UNCHANGED <<transactions_df, settlements_df>>
       ELSE /\ pc' = "calculate_expected_amounts"
            /\ transactions_df' = Frame(TransactionColumns, data_files.transactions.rows)
            /\ settlements_df' = Frame(SettlementColumns, data_files.settlements.rows)
            /\ UNCHANGED raised
    /\ UNCHANGED <<data_files, reconciled_df, ghost_settlements, call, program_vars>>

expected_settled_amount_of(row) ==
    calculate_expected_settlement(row.amount, row.payment_method)

calculate_expected_amounts(df) ==
    AssignColumn(df, "expected_settled_amount", expected_settled_amount_of)

calculate_expected_amounts_input_in_place(df) ==
    InPlace(df, calculate_expected_amounts(df))

\* the frame passed in, after the call: the column is added to a copy
calculate_expected_amounts_input(df) ==
    OnCopy(df, calculate_expected_amounts(df))

\* On a frame without rows DataFrame.apply(axis=1) probes the function with
\* a placeholder row; depending on the pandas build the probe yields a
\* scalar (an empty column is assigned) or fails (a frame is returned and
\* the column assignment raises ValueError).
CalculateExpectedAmounts ==
    /\ pc = "calculate_expected_amounts"
    /\ \/ /\ pc' = "match_settlements_exact"
          /\ transactions_df' = calculate_expected_amounts(transactions_df)
          /\ UNCHANGED raised
       \/ /\ Len(transactions_df.rows) = 0
          /\ pc' = "raised"
          /\ raised' = "ValueError"
          /\ UNCHANGED transactions_df
    /\ call' = StageCall("calculate_expected_amounts", <<transactions_df>>,
                          <<calculate_expected_amounts_input(transactions_df)>>)
    /\ UNCHANGED <<data_files, settlements_df, reconciled_df, ghost_settlements,
                   program_vars>>

\* Column name a right-hand column gets in the merge: the key is shared,
\* a name both frames have gets the suffix, any other name is kept.
SuffixedColumn == [currency |-> "currency_settlement", provider |-> "provider_settlement"]

MergedName(c, left_columns) ==
    IF c \in left_columns /\ c \in DOMAIN SuffixedColumn THEN SuffixedColumn[c] ELSE c

RightColumns(left_columns, right_columns) ==
    {MergedName(c, left_columns) : c \in right_columns \ {"transaction_id"}}

\* Variant: provider and currency are taken from the settlement.
JoinedRow_settlement_first(t, s, left_columns, right_columns) ==
    [k \in (DOMAIN t) \cup RightColumns(left_columns, right_columns) |->
        IF k \in {"provider", "currency"} THEN s[k]
        ELSE IF k \in DOMAIN t THEN t[k]
        ELSE LET c == CHOOSE x \in right_columns \ {"transaction_id"} :
                          MergedName(x, left_columns) = k
             IN  <<s[c]>>]

\* one output row of the left join: t joined with settlement s
JoinedRow(t, s, left_columns, right_columns) ==
    [k \in (DOMAIN t) \cup RightColumns(left_columns, right_columns) |->
        IF k \in DOMAIN t THEN t[k]
        ELSE LET c == CHOOSE x \in right_columns \ {"transaction_id"} :
                          MergedName(x, left_columns) = k
             IN  <<s[c]>>]

\* the output row of a transaction no settlement references
UnjoinedRow(t, left_columns, right_columns) ==
    [k \in (DOMAIN t) \cup RightColumns(left_columns, right_columns) |->
        IF k \in DOMAIN t THEN t[k] ELSE NaN]

\* Variant: an inner join, which drops the transactions without settlement.
LeftMerge_inner(left, right) ==
    Frame(left.columns \cup RightColumns(left.columns, right.columns),
          Concat([i \in 1..Len(left.rows) |->
              LET t == left.rows[i]
                  SameKey(s) == s.transaction_id = t.transaction_id
                  m == SelectSeq(right.rows, SameKey)
              IN  [j \in 1..Len(m) |->
                      JoinedRow(t, m[j], left.columns, right.columns)]]))

\* DataFrame.merge(how='left', on='transaction_id'): left order is kept and
\* a left row is repeated once per right row with the same key.
LeftMerge(left, right) ==
    Frame(left.columns \cup RightColumns(left.columns, right.columns),
          Concat([i \in 1..Len(left.rows) |->
              LET t == left.rows[i]
                  SameKey(s) == s.transaction_id = t.transaction_id
                  m == SelectSeq(right.rows, SameKey)
              IN  IF m = <<>>
                  THEN <<UnjoinedRow(t, left.columns, right.columns)>>
                  ELSE [j \in 1..Len(m) |->
                          JoinedRow(t, m[j], left.columns, right.columns)]]))

DropIfPresent(df, c) == IF c \in df.columns THEN DropColumn(df, c) ELSE df

match_settlements_exact(txns, stls) ==
    DropIfPresent(DropIfPresent(LeftMerge(txns, stls), "provider_settlement"),
                  "currency_settlement")

\* the two frames passed in, after the call: merge and drop build new frames
match_settlements_exact_inputs(txns, stls) == <<txns, stls>>

MatchSettlementsExact ==
    /\ pc = "match_settlements_exact"
    /\ reconciled_df' = match_settlements_exact(transactions_df, settlements_df)
    /\ pc' = "calculate_discrepancies"
    /\ call' = StageCall("match_settlements_exact", <<transactions_df, settlements_df>>,
                          match_settlements_exact_inputs(transactions_df, settlements_df))
    /\ transactions_df' = call'.after[1]
    /\ settlements_df' = call'.after[2]
    /\ UNCHANGED <<data_files, raised, ghost_settlements, program_vars>>

\* Variant: a missing settlement counts as a discrepancy of zero.
discrepancy_amount_of_filled(row) ==
    IF notna(row.actual_settled_amount)
    THEN <<row.expected_settled_amount - row.actual_settled_amount[1]>>
    ELSE <<0>>

discrepancy_amount_of(row) ==
    IF notna(row.actual_settled_amount)
    THEN <<row.expected_settled_amount - row.actual_settled_amount[1]>>
    ELSE NaN

\* Variant: the percentage is rounded down to a whole percent.
discrepancy_percent_of_rounded(row) ==
    IF notna(row.actual_settled_amount)
    THEN IF isna(row.discrepancy_amount) THEN NaN
         ELSE IF row.expected_settled_amount = 0
         THEN FloatDiv(row.discrepancy_amount[1] * 100, 0)
         ELSE <<[n |-> (row.discrepancy_amount[1] * 100) \div row.expected_settled_amount,
                 d |-> 1]>>
    ELSE NaN

discrepancy_percent_of(row) ==
    IF notna(row.actual_settled_amount)
    THEN IF isna(row.discrepancy_amount) THEN NaN
         ELSE FloatDiv(row.discrepancy_amount[1] * 100, row.expected_settled_amount)
    ELSE NaN

actual_settled_amount_of(row) == row.settled_amount

calculate_discrepancies(df) ==
    IF Len(df.rows) = 0 THEN df
    ELSE AssignColumn(
           AssignColumn(
             AssignColumn(df, "actual_settled_amount", actual_settled_amount_of),
             "discrepancy_amount", discrepancy_amount_of),
           "discrepancy_percent", discrepancy_percent_of)

\* the frame passed in, after the call: an empty frame is returned as it
\* is, any other frame is copied before the columns are assigned
calculate_discrepancies_input(df) ==
    IF Len(df.rows) = 0 THEN df ELSE OnCopy(df, calculate_discrepancies(df))

\* Variant: step 4 hands over to the classification, without step 5.
CalculateDiscrepancies_then_classify ==
    /\ pc = "calculate_discrepancies"
    /\ reconciled_df' = calculate_discrepancies(reconciled_df)
    /\ IF "discrepancy_amount" \in reconciled_df'.columns
       THEN pc' = "classify_settlement_status" /\ UNCHANGED raised
       ELSE pc' = "raised" /\ raised' = "KeyError"
    /\ call' = StageCall("calculate_discrepancies", <<reconciled_df>>,
                          <<calculate_discrepancies_input(reconciled_df)>>)
    /\ UNCHANGED <<data_files, transactions_df, settlements_df, ghost_settlements,
                   program_vars>>

\* Step 4 of reconcile_transactions: the stage, then the count of
\* significant discrepancies, which reads the discrepancy_amount column and
\* raises KeyError when the stage returned a frame without it.
CalculateDiscrepancies ==
    /\ pc = "calculate_discrepancies"
    /\ reconciled_df' = calculate_discrepancies(reconciled_df)
    /\ IF "discrepancy_amount" \in reconciled_df'.columns
       THEN pc' = "detect_timing_anomalies" /\ UNCHANGED raised
       ELSE pc' = "raised" /\ raised' = "KeyError"
    /\ call' = StageCall("calculate_discrepancies", <<reconciled_df>>,
                          <<calculate_discrepancies_input(reconciled_df)>>)
    /\ UNCHANGED <<data_files, transactions_df, settlements_df, ghost_settlements,
                   program_vars>>

TimedeltaDays_truncated(hours) ==
    IF hours < 0 THEN -((-hours) \div 24) ELSE hours \div 24

\* Timedelta.days: whole days, rounded toward minus infinity
TimedeltaDays(hours) == hours \div 24

days_to_settle_of(row) ==
    IF notna(row.settlement_date)
    THEN <<TimedeltaDays(row.settlement_date[1] - row.timestamp)>>
    ELSE NaN

get_threshold(row) == get_settlement_timing(row.payment_method)[3]

timing_anomaly_of_after_discrepancy(row) ==
    \/ notna(row.days_to_settle) /\ row.days_to_settle[1] > row.settlement_threshold
    \/ "discrepancy_amount" \in DOMAIN row /\ notna(row.discrepancy_amount)

timing_anomaly_of_inclusive(row) ==
    notna(row.days_to_settle) /\ row.days_to_settle[1] >= row.settlement_threshold

timing_anomaly_of(row) ==
    notna(row.days_to_settle) /\ row.days_to_settle[1] > row.settlement_threshold

detect_timing_anomalies(df) ==
    IF Len(df.rows) = 0 THEN df
    ELSE AssignColumn(
           AssignColumn(
             AssignColumn(df, "days_to_settle", days_to_settle_of),
             "settlement_threshold", get_threshold),
           "timing_anomaly", timing_anomaly_of)

detect_timing_anomalies_input(df) ==
    IF Len(df.rows) = 0 THEN df ELSE OnCopy(df, detect_timing_anomalies(df))

DetectTimingAnomalies ==
    /\ pc = "detect_timing_anomalies"
    /\ reconciled_df' = detect_timing_anomalies(reconciled_df)
    /\ IF "timing_anomaly" \in reconciled_df'.columns
       THEN pc' = "classify_settlement_status" /\ UNCHANGED raised
       ELSE pc' = "raised" /\ raised' = "KeyError"
    /\ call' = StageCall("detect_timing_anomalies", <<reconciled_df>>,
                          <<detect_timing_anomalies_input(reconciled_df)>>)
    /\ UNCHANGED <<data_files, transactions_df, settlements_df, ghost_settlements,
                   program_vars>>

discrepancy_threshold_percent == 1
discrepancy_threshold_amount == 1

\* Variant: no fallback for a lifecycle status outside the listed ones.
\* Variant: a settlement that came late is a discrepancy whatever its amount.
classify_status_late_is_discrepancy(row) ==
    IF row.status \in {"authorized", "declined"} THEN "not_applicable"
    ELSE IF isna(row.settlement_id)
    THEN IF row.status = "captured" THEN "missing"
         ELSE IF row.status \in {"refunded", "chargedback"} THEN "missing_expected"
         ELSE "not_applicable"
    ELSE IF \/ row.timing_anomaly
            \/ /\ notna(row.discrepancy_amount)
               /\ Abs(row.discrepancy_amount[1]) > discrepancy_threshold_amount * Cents(100)
               /\ notna(row.discrepancy_percent)
               /\ AbsFloatGreater(row.discrepancy_percent[1], discrepancy_threshold_percent)
    THEN "discrepancy"
    ELSE "matched"

classify_status_no_fallback(row) ==
    IF row.status \in {"authorized", "declined"} THEN "not_applicable"
    ELSE IF isna(row.settlement_id)
    THEN IF row.status = "captured" THEN "missing"
         ELSE IF row.status \in {"refunded", "chargedback"} THEN "missing_expected"
         ELSE "None"
    ELSE IF /\ notna(row.discrepancy_amount)
            /\ Abs(row.discrepancy_amount[1]) > discrepancy_threshold_amount * Cents(100)
            /\ notna(row.discrepancy_percent)
            /\ AbsFloatGreater(row.discrepancy_percent[1], discrepancy_threshold_percent)
    THEN "discrepancy"
    ELSE "matched"

\* Variant: settlement presence and tolerance are decided before the
\* lifecycle exclusion.
classify_status_presence_first(row) ==
    IF notna(row.settlement_id)
    THEN IF /\ notna(row.discrepancy_amount)
            /\ Abs(row.discrepancy_amount[1]) > discrepancy_threshold_amount * Cents(100)
            /\ notna(row.discrepancy_percent)
            /\ AbsFloatGreater(row.discrepancy_percent[1], discrepancy_threshold_percent)
         THEN "discrepancy"
         ELSE "matched"
    ELSE IF row.status \in {"authorized", "declined"} THEN "not_applicable"
    ELSE IF row.status = "captured" THEN "missing"
    ELSE IF row.status \in {"refunded", "chargedback"} THEN "missing_expected"
    ELSE "not_applicable"

\* Variant: a refunded or chargedback transaction without settlement is
\* reported like a captured one.
classify_status_refund_missing(row) ==
    IF row.status \in {"authorized", "declined"} THEN "not_applicable"
    ELSE IF isna(row.settlement_id)
    THEN IF row.status \in {"captured", "refunded", "chargedback"} THEN "missing"
         ELSE "not_applicable"
    ELSE IF /\ notna(row.discrepancy_amount)
            /\ Abs(row.discrepancy_amount[1]) > discrepancy_threshold_amount * Cents(100)
            /\ notna(row.discrepancy_percent)
            /\ AbsFloatGreater(row.discrepancy_percent[1], discrepancy_threshold_percent)
    THEN "discrepancy"
    ELSE "matched"

\* Variant: one exceeded tolerance is enough (or instead of and).
classify_status_either_tolerance(row) ==
    IF row.status \in {"authorized", "declined"} THEN "not_applicable"
    ELSE IF isna(row.settlement_id)
    THEN IF row.status = "captured" THEN "missing"
         ELSE IF row.status \in {"refunded", "chargedback"} THEN "missing_expected"
         ELSE "not_applicable"
    ELSE IF /\ notna(row.discrepancy_amount)
            /\ \/ Abs(row.discrepancy_amount[1]) > discrepancy_threshold_amount * Cents(100)
               \/ /\ notna(row.discrepancy_percent)
                  /\ AbsFloatGreater(row.discrepancy_percent[1], discrepancy_threshold_percent)
    THEN "discrepancy"
    ELSE "matched"

classify_status(row) ==
    IF row.status \in {"authorized", "declined"} THEN "not_applicable"
    ELSE IF isna(row.settlement_id)
    THEN IF row.status = "captured" THEN "missing"
         ELSE IF row.status \in {"refunded", "chargedback"} THEN "missing_expected"
         ELSE "not_applicable"
    ELSE IF /\ notna(row.discrepancy_amount)
            /\ Abs(row.discrepancy_amount[1]) > discrepancy_threshold_amount * Cents(100)
            /\ notna(row.discrepancy_percent)
            /\ AbsFloatGreater(row.discrepancy_percent[1], discrepancy_threshold_percent)
    THEN "discrepancy"
    ELSE "matched"

classify_settlement_status(df) == AssignColumn(df, "settlement_status", classify_status)

classify_settlement_status_input(df) == OnCopy(df, classify_settlement_status(df))

ClassifySettlementStatus ==
    /\ pc = "classify_settlement_status"
    /\ call' = StageCall("classify_settlement_status", <<reconciled_df>>,
                          <<classify_settlement_status_input(reconciled_df)>>)
    /\ reconciled_df' = classify_settlement_status(reconciled_df)
    /\ pc' = "identify_ghost_settlements"
    /\ UNCHANGED <<data_files, raised, transactions_df, settlements_df,
                   ghost_settlements, program_vars>>

matched_settlement_ids(df) ==
    {df.rows[i].settlement_id[1] :
        i \in {k \in 1..Len(df.rows) : notna(df.rows[k].settlement_id)}}

all_settlement_ids(stls) == ColumnValues(stls, "settlement_id")

\* Variant: the matched identifiers are not subtracted.
ghost_settlement_ids_all(df, stls) == all_settlement_ids(stls)

ghost_settlement_ids(df, stls) == all_settlement_ids(stls) \ matched_settlement_ids(df)

\* Variant: the selection is inverted (the matched settlements are kept).
identify_ghost_settlements_inverted(df, stls) ==
    LET IsGhost(s) == s.settlement_id \notin ghost_settlement_ids(df, stls)
        TagGhost(s) == "ghost_settlement"
    IN  AssignColumn(Frame(stls.columns, SelectSeq(stls.rows, IsGhost)),
                     "anomaly_type", TagGhost)

identify_ghost_settlements(df, stls) ==
    LET IsGhost(s) == s.settlement_id \in ghost_settlement_ids(df, stls)
        TagGhost(s) == "ghost_settlement"
    IN  AssignColumn(Frame(stls.columns, SelectSeq(stls.rows, IsGhost)),
                     "anomaly_type", TagGhost)

\* the two frames passed in, after the call: both are only read, and the
\* selected settlements are copied before anomaly_type is added
identify_ghost_settlements_inputs(df, stls) ==
    <<df, OnCopy(stls, identify_ghost_settlements(df, stls))>>

IdentifyGhostSettlements ==
    /\ pc = "identify_ghost_settlements"
    /\ ghost_settlements' = identify_ghost_settlements(reconciled_df, settlements_df)
    /\ pc' = "expected_settlement_date"
    /\ call' = StageCall("identify_ghost_settlements", <<reconciled_df, settlements_df>>,
                          identify_ghost_settlements_inputs(reconciled_df, settlements_df))
    /\ reconciled_df' = call'.after[1]
    /\ settlements_df' = call'.after[2]
    /\ UNCHANGED <<data_files, raised, transactions_df, program_vars>>

calculate_expected_settlement_date_wall_clock(row) ==
    LET timing == get_settlement_timing(row.payment_method)
    IN  now + (timing[1] + timing[2]) * 12

calculate_expected_settlement_date_whole_days(row) ==
    LET timing == get_settlement_timing(row.payment_method)
    IN  row.timestamp + ((timing[1] + timing[2]) \div 2) * 24

\* timestamp + timedelta(days = (min + max) / 2), in hours
calculate_expected_settlement_date(row) ==
    LET timing == get_settlement_timing(row.payment_method)
    IN  row.timestamp + (timing[1] + timing[2]) * 12

\* The last statement of reconcile_transactions before it returns.
AddExpectedSettlementDate ==
    /\ pc = "expected_settlement_date"
    /\ reconciled_df' = AssignColumn(reconciled_df, "expected_settlement_date",
                                     calculate_expected_settlement_date)
    /\ pc' = "returned"
    /\ UNCHANGED <<data_files, raised, transactions_df, settlements_df,
                   ghost_settlements, call, program_vars>>

\* reconcile_transactions as a whole, on frames that have rows: steps 2
\* to 6 here, the two values it returns below
classified_records(txns, stls) ==
    classify_settlement_status(
        detect_timing_anomalies(
            calculate_discrepancies(
                match_settlements_exact(calculate_expected_amounts(txns), stls))))

\* the first value returned: the classified records with step 8 applied
returned_reconciled(txns, stls) ==
    AssignColumn(classified_records(txns, stls), "expected_settlement_date",
                 calculate_expected_settlement_date)

\* the second value returned: step 7 on the classified records
returned_ghosts(txns, stls) ==
    identify_ghost_settlements(classified_records(txns, stls), stls)

Next ==
    \/ LoadData
    \/ CalculateExpectedAmounts
    \/ MatchSettlementsExact
    \/ CalculateDiscrepancies
    \/ DetectTimingAnomalies
    \/ ClassifySettlementStatus
    \/ IdentifyGhostSettlements
    \/ AddExpectedSettlementDate

Spec == Init /\ [][Next]_vars


\* ------------------------------------------------ main.py and repeated calls
\* The program as a whole: reconcile_transactions called directly (and
\* called again on the same files), or run_full_pipeline around it.
ProgramTxnFields ==
    [status : {"captured", "refunded"},
     payment_method : {"credit_card"},
     currency : {"BRL"}]

\* the data directory: each of the two files is there or not
ProgramDataFiles ==
    LET txns == {NoFile} \cup
                UNION {{CsvFile(MultiTransactions(tf)) : tf \in [1..n -> ProgramTxnFields]}
                       : n \in 0..MaxTxns}
        stls == {NoFile} \cup
                UNION {{CsvFile(MultiSettlements(sf)) : sf \in [1..m -> MultiSettlementFields]}
                       : m \in 0..MaxSettlements}
    IN  [transactions : txns, settlements : stls]

\* what generate_data writes: a non-empty transactions file and the
\* settlements file
GeneratedDataFiles ==
    {d \in ProgramDataFiles :
        /\ d.transactions.exists
        /\ d.settlements.exists
        /\ Len(d.transactions.rows) >= 1}

InitProgram ==
    /\ data_files \in ProgramDataFiles
    /\ \/ main_pc = "direct" /\ pc = "load_data" /\ skip_generate = FALSE
       \/ main_pc = "stage1" /\ pc = "not_started" /\ skip_generate \in BOOLEAN
    /\ raised = "none"
    /\ transactions_df = EmptyFrame
    /\ settlements_df = EmptyFrame
    /\ reconciled_df = EmptyFrame
    /\ ghost_settlements = EmptyFrame
    /\ call = NoCall
    /\ now = 1000
    /\ run = "first"
    /\ first_outputs = NoOutputs
    /\ exit_status = NaN
    /\ output_files = NoOutputs
    /\ analysis_pc = "idle"
    /\ analysis_df = EmptyFrame
    /\ analysis_results = NoResults

check_data_files_exist == data_files.transactions.exists /\ data_files.settlements.exists

\* sys.exit(status)
Exit(status) == main_pc' = "exited" /\ exit_status' = <<status>>

\* Stage 1 with --skip-generate: the files must be there already.
CheckDataFiles ==
    /\ main_pc = "stage1"
    /\ skip_generate
    /\ IF check_data_files_exist
       THEN main_pc' = "stage2" /\ pc' = "load_data" /\ UNCHANGED exit_status
       ELSE Exit(1) /\ UNCHANGED pc
    /\ UNCHANGED <<data_files, raised, transactions_df, settlements_df, reconciled_df,
                   ghost_settlements, call, now, run, first_outputs, skip_generate,
                   output_files>>
    /\ UNCHANGED analysis_vars

\* Stage 1 without the flag: generate_data writes both files, or fails.
GenerateData ==
    /\ main_pc = "stage1"
    /\ ~skip_generate
    /\ \/ /\ data_files' \in GeneratedDataFiles
          /\ main_pc' = "stage2"
          /\ pc' = "load_data"
          /\ UNCHANGED exit_status
       \/ Exit(1) /\ UNCHANGED <<data_files, pc>>
    /\ UNCHANGED <<raised, transactions_df, settlements_df, reconciled_df,
                   ghost_settlements, call, now, run, first_outputs, skip_generate,
                   output_files>>
    /\ UNCHANGED analysis_vars

\* Variant: the exception of stage 2 is swallowed and stage 3 starts.
Stage2Failed_continues ==
    /\ main_pc = "stage2"
    /\ pc = "raised"
    /\ main_pc' = "stage3"
    /\ UNCHANGED <<data_files, pc, raised, transactions_df, settlements_df,
                   reconciled_df, ghost_settlements, call, now, run, first_outputs,
                   skip_generate, output_files, exit_status>>
    /\ UNCHANGED analysis_vars

\* Stage 2, the except branch: reconcile_transactions raised.
Stage2Failed ==
    /\ main_pc = "stage2"
    /\ pc = "raised"
    /\ Exit(1)
    /\ UNCHANGED <<data_files, pc, raised, transactions_df, settlements_df,
                   reconciled_df, ghost_settlements, call, now, run, first_outputs,
                   skip_generate, output_files>>
    /\ UNCHANGED analysis_vars

\* Stage 2, after reconcile_transactions returned: save_reconciled_data
\* writes the reconciled records, then the ghost settlements; a write that
\* fails ends in the except branch of stage 2.
SaveReconciledData ==
    /\ main_pc = "stage2"
    /\ pc = "returned"
    /\ \/ /\ output_files' = Outputs(reconciled_df, ghost_settlements)
          /\ main_pc' = "stage3"
          /\ UNCHANGED exit_status
       \/ /\ output_files' \in {NoOutputs, ReconciledOnly(reconciled_df)}
          /\ Exit(1)
    /\ UNCHANGED <<data_files, pc, raised, transactions_df, settlements_df,
                   reconciled_df, ghost_settlements, call, now, run, first_outputs,
                   skip_generate>>
    /\ UNCHANGED analysis_vars

\* ------------------------------------------------------------- analyze.py
\* a cell read_csv leaves as the text that was written
as_written(row) == [text |-> row.expected_settlement_date]

\* read_csv of reconciled_data.csv: numbers, booleans and empty cells come
\* back as they were; timestamp and settlement_date are parsed back into
\* datetimes, expected_settlement_date is not and stays text
load_reconciled_data(file) ==
    IF "expected_settlement_date" \in file.columns
    THEN AssignColumn(file, "expected_settlement_date", as_written)
    ELSE file

amount_usd_of(row) == convert_to_usd(row.amount, row.currency)

\* reconciled_df['amount_usd'] = ... on the frame passed in
with_amount_usd(df) == AssignColumn(df, "amount_usd", amount_usd_of)

\* Series.dt.date: the day the hour falls in
date_of(row) == row.timestamp \div 24

\* isocalendar().week, with hour 0 taken as the start of week 1
week_of(row) == (((row.timestamp \div 24) \div 7) % 52) + 1

\* the sum of column c, taken half by half
RECURSIVE SumOver(_, _)
SumOver(rws, c) ==
    IF Len(rws) = 0 THEN 0
    ELSE IF Len(rws) = 1 THEN rws[1][c]
    ELSE SumOver(SubSeq(rws, 1, Len(rws) \div 2), c)
         + SumOver(SubSeq(rws, (Len(rws) \div 2) + 1, Len(rws)), c)

HasStatus(rws, st) == SelectSeq(rws, LAMBDA r : r.settlement_status = st)

HasLifecycle(rws, st) == SelectSeq(rws, LAMBDA r : r.status = st)

Delayed(rws) == SelectSeq(rws, LAMBDA r : r.timing_anomaly)

\* convert_to_usd(abs(discrepancy_amount), currency) if notna else 0
discrepancy_usd_of(row) ==
    IF notna(row.discrepancy_amount)
    THEN convert_to_usd(Abs(row.discrepancy_amount[1]), row.currency)
    ELSE 0

SumDiscrepancyUsd(rws) ==
    SumOver([k \in 1..Len(rws) |-> [usd |-> discrepancy_usd_of(rws[k])]], "usd")

days_to_settle_filled(row) ==
    IF isna(row.days_to_settle) THEN <<0>> ELSE row.days_to_settle

\* Variant: the empty days_to_settle cells are filled with 0 on the frame
\* itself before the sums are taken.
calculate_aggregate_metrics_input_fillna(df) ==
    InPlace(df, AssignColumn(AssignColumn(with_amount_usd(df), "date", date_of),
                             "days_to_settle", days_to_settle_filled))

\* the frame passed in, after the call: amount_usd and date are assigned to
\* the frame itself
calculate_aggregate_metrics_input(df) ==
    InPlace(df, AssignColumn(with_amount_usd(df), "date", date_of))

\* metrics['overall'] (the breakdowns by provider, method, country and day
\* repeat the same sums over subsets and are left out)
calculate_aggregate_metrics(df) ==
    LET rws == with_amount_usd(df).rows
        missing_revenue_usd == SumOver(HasStatus(rws, "missing"), "amount_usd")
        discrepancy_amount_usd == SumDiscrepancyUsd(HasStatus(rws, "discrepancy"))
    IN  [total_transactions |-> Len(df.rows),
         total_amount_usd |-> Round2(SumOver(rws, "amount_usd")),
         missing_revenue_usd |-> Round2(missing_revenue_usd),
         discrepancy_amount_usd |-> Round2(discrepancy_amount_usd),
         total_discrepancy_usd |-> Round2(missing_revenue_usd + discrepancy_amount_usd)]

categorize_revenue_input(df) == InPlace(df, with_amount_usd(df))

Category(rws) == [count |-> Len(rws), amount_usd |-> Round2(SumOver(rws, "amount_usd"))]

\* the seven categories, each with its count and its amount; ghosts is
\* ghost_settlements.csv, or nothing when it cannot be read
categorize_revenue(df, ghosts) ==
    LET rws == with_amount_usd(df).rows
        fee_discrepancies == HasStatus(rws, "discrepancy")
    IN  [unsettled_authorizations |-> Category(HasLifecycle(rws, "authorized")),
         missing_settlements |-> Category(HasStatus(rws, "missing")),
         unexpected_fees |-> [count |-> Len(fee_discrepancies),
                              amount_usd |-> Round2(SumDiscrepancyUsd(fee_discrepancies))],
         chargebacks |-> Category(HasLifecycle(rws, "chargedback")),
         refunds |-> Category(HasLifecycle(rws, "refunded")),
         timing_delays |-> Category(Delayed(rws)),
         ghost_settlements |->
             [count |-> Len(ghosts.rows),
              amount_usd |-> Round2(SumOver(
                  [k \in 1..Len(ghosts.rows) |->
                      [amount_usd |-> convert_to_usd(ghosts.rows[k].settled_amount,
                                                     ghosts.rows[k].currency)]],
                  "amount_usd"))]]

identify_patterns_input(df) ==
    InPlace(df, AssignColumn(with_amount_usd(df), "week", week_of))

Take(seq, n) == SubSeq(seq, 1, IF Len(seq) < n THEN Len(seq) ELSE n)

\* the kinds of pattern found, in the order they are appended; the first
\* five are returned
identify_patterns(df, categories) ==
    Take(<<"provider">>
         \o (IF Delayed(df.rows) # <<>> THEN <<"payment_method">> ELSE <<>>)
         \o <<"country">>
         \o (IF HasStatus(df.rows, "missing") # <<>> THEN <<"week">> ELSE <<>>)
         \o (IF categories.missing_settlements.amount_usd > 0
             THEN <<"critical">> ELSE <<>>),
         5)

generate_prioritized_anomalies_input(df) == InPlace(df, with_amount_usd(df))

Anomaly(row, type, severity, usd) ==
    [anomaly_id |-> 0, transaction_id |-> row.transaction_id, anomaly_type |-> type,
     severity |-> severity, amount_usd |-> Round2(usd)]

missing_settlement_anomaly(row) ==
    Anomaly(row, "missing_settlement", "critical", row.amount_usd)

fee_discrepancy_anomaly(row) ==
    Anomaly(row, "fee_discrepancy", "high",
            convert_to_usd(Abs(row.discrepancy_amount[1]), row.currency))

timing_delay_anomaly(row) ==
    Anomaly(row, "timing_delay", "medium", row.amount_usd)

\* anomaly_id = ANO_<len(anomalies)+1>: the position at which it was appended
Numbered(seq) == [k \in 1..Len(seq) |-> [seq[k] EXCEPT !.anomaly_id = k]]

\* every anomaly appended before the sort: the missing settlements, then
\* the fee discrepancies, then the timing delays, each in row order
missing_settlement_anomalies(missing) ==
    [k \in 1..Len(missing) |-> missing_settlement_anomaly(missing[k])]

fee_discrepancy_anomalies(discrepancies) ==
    [k \in 1..Len(discrepancies) |-> fee_discrepancy_anomaly(discrepancies[k])]

timing_delay_anomalies(timing) ==
    [k \in 1..Len(timing) |-> timing_delay_anomaly(timing[k])]

appended_anomalies(rws) ==
    Numbered(missing_settlement_anomalies(HasStatus(rws, "missing"))
             \o fee_discrepancy_anomalies(HasStatus(rws, "discrepancy"))
             \o timing_delay_anomalies(Delayed(rws)))

all_anomalies(df) == appended_anomalies(with_amount_usd(df).rows)

\* where each entry goes: after every entry with a larger amount_usd and
\* after the earlier entries with the same amount_usd
ImpactRank(seq) ==
    [i \in 1..Len(seq) |->
        1 + Cardinality({j \in 1..Len(seq) :
                            \/ seq[j].amount_usd > seq[i].amount_usd
                            \/ seq[j].amount_usd = seq[i].amount_usd /\ j < i})]

Arranged(seq, rank) ==
    [p \in 1..Len(seq) |-> seq[CHOOSE i \in 1..Len(seq) : rank[i] = p]]

\* list.sort(key = amount_usd, reverse = True): descending, and entries
\* with equal keys keep their order
SortByImpact(seq) == Arranged(seq, ImpactRank(seq))

TOP_ANOMALIES == 50

\* Variant: the list is cut to its first fifty entries before it is sorted.
generate_prioritized_anomalies_cut_first(df) ==
    SortByImpact(Take(all_anomalies(df), TOP_ANOMALIES))

generate_prioritized_anomalies(df) ==
    Take(SortByImpact(all_anomalies(df)), TOP_ANOMALIES)

\* insights['summary'] and the time of writing
generate_insights_summary(metrics, categories, patterns, df) ==
    [generated_at |-> now,
     total_missing_revenue_usd |->
         categories.missing_settlements.amount_usd + categories.unexpected_fees.amount_usd,
     total_transactions_analyzed |-> Len(df.rows),
     critical_issues |->
         categories.missing_settlements.count + categories.unexpected_fees.count,
     patterns |-> patterns]

\* everything analyze_revenue_anomalies leaves alone
outside_analysis ==
    <<data_files, pc, raised, transactions_df, settlements_df, reconciled_df,
      ghost_settlements, call, now, run, first_outputs, main_pc, skip_generate,
      exit_status, output_files>>

\* Stage 3, or --analyze-only: analyze_revenue_anomalies is called.
AnalyzeRevenueAnomalies ==
    /\ main_pc \in {"stage3", "analysis"}
    /\ analysis_pc = "idle"
    /\ analysis_pc' = "load_reconciled_data"
    /\ UNCHANGED <<analysis_df, analysis_results, outside_analysis>>

\* Step 1
LoadReconciledData ==
    /\ analysis_pc = "load_reconciled_data"
    /\ analysis_df' = load_reconciled_data(output_files.reconciled)
    /\ analysis_pc' = "calculate_aggregate_metrics"
    /\ UNCHANGED <<analysis_results, outside_analysis>>

\* Step 2
CalculateAggregateMetrics ==
    /\ analysis_pc = "calculate_aggregate_metrics"
    /\ analysis_results' =
           [analysis_results EXCEPT !.metrics = <<calculate_aggregate_metrics(analysis_df)>>]
    /\ analysis_df' = calculate_aggregate_metrics_input(analysis_df)
    /\ analysis_pc' = "categorize_revenue"
    /\ UNCHANGED outside_analysis

\* ghost_settlements.csv as categorize_revenue reads it; a file that is not
\* there ends in the except branch, which reports no ghost settlements
ghost_settlements_file ==
    IF output_files.exists THEN output_files.ghosts ELSE EmptyFrame

\* Step 3
CategorizeRevenue ==
    /\ analysis_pc = "categorize_revenue"
    /\ analysis_results' =
           [analysis_results EXCEPT
               !.categories = <<categorize_revenue(analysis_df, ghost_settlements_file)>>]
    /\ analysis_df' = categorize_revenue_input(analysis_df)
    /\ analysis_pc' = "identify_patterns"
    /\ UNCHANGED outside_analysis

\* Step 4
IdentifyPatterns ==
    /\ analysis_pc = "identify_patterns"
    /\ analysis_results' =
           [analysis_results EXCEPT
               !.patterns = <<identify_patterns(analysis_df, analysis_results.categories[1])>>]
    /\ analysis_df' = identify_patterns_input(analysis_df)
    /\ analysis_pc' = "generate_prioritized_anomalies"
    /\ UNCHANGED outside_analysis

\* Step 5
GeneratePrioritizedAnomalies ==
    /\ analysis_pc = "generate_prioritized_anomalies"
    /\ analysis_results' =
           [analysis_results EXCEPT
               !.anomalies = <<generate_prioritized_anomalies(analysis_df)>>]
    /\ analysis_df' = generate_prioritized_anomalies_input(analysis_df)
    /\ analysis_pc' = "generate_insights_summary"
    /\ UNCHANGED outside_analysis

\* Step 6
GenerateInsightsSummary ==
    /\ analysis_pc = "generate_insights_summary"
    /\ analysis_results' =
           [analysis_results EXCEPT
               !.insights = <<generate_insights_summary(
                                 analysis_results.metrics[1], analysis_results.categories[1],
                                 analysis_results.patterns[1], analysis_df)>>]
    /\ analysis_pc' = "save"
    /\ UNCHANGED <<analysis_df, outside_analysis>>

\* Step 7: insights.json and anomalies.json are written, or a write fails
SaveAnalysisOutputs ==
    /\ analysis_pc = "save"
    /\ \/ /\ analysis_results' = [analysis_results EXCEPT !.saved = TRUE]
          /\ analysis_pc' = "returned"
       \/ /\ analysis_pc' = "raised"
          /\ UNCHANGED analysis_results
    /\ UNCHANGED <<analysis_df, outside_analysis>>

\* the caller's try block after analyze_revenue_anomalies returned
Stage3Complete ==
    /\ main_pc \in {"stage3", "analysis"}
    /\ analysis_pc = "returned"
    /\ main_pc' = "complete"
    /\ UNCHANGED <<data_files, pc, raised, transactions_df, settlements_df,
                   reconciled_df, ghost_settlements, call, now, run, first_outputs,
                   skip_generate, exit_status, output_files, analysis_vars>>

\* the caller's except branch
Stage3Failed ==
    /\ main_pc \in {"stage3", "analysis"}
    /\ analysis_pc = "raised"
    /\ Exit(1)
    /\ UNCHANGED <<data_files, pc, raised, transactions_df, settlements_df,
                   reconciled_df, ghost_settlements, call, now, run, first_outputs,
                   skip_generate, output_files, analysis_vars>>

AnalysisSteps ==
    \/ AnalyzeRevenueAnomalies
    \/ LoadReconciledData
    \/ CalculateAggregateMetrics
    \/ CategorizeRevenue
    \/ IdentifyPatterns
    \/ GeneratePrioritizedAnomalies
    \/ GenerateInsightsSummary
    \/ SaveAnalysisOutputs
    \/ Stage3Complete
    \/ Stage3Failed

\* reconcile_transactions is called a second time, later, on the same
\* files: its locals are new, what the first call returned is kept aside.
RunAgain ==
    /\ main_pc = "direct"
    /\ run = "first"
    /\ pc \in {"returned", "raised"}
    /\ first_outputs' = IF pc = "returned"
                        THEN Outputs(reconciled_df, ghost_settlements)
                        ELSE NoOutputs
    /\ run' = "second"
    /\ now' = now + 1
    /\ pc' = "load_data"
    /\ raised' = "none"
    /\ transactions_df' = EmptyFrame
    /\ settlements_df' = EmptyFrame
    /\ reconciled_df' = EmptyFrame
    /\ ghost_settlements' = EmptyFrame
    /\ call' = NoCall
    /\ UNCHANGED <<data_files, main_pc, skip_generate, exit_status, output_files>>
    /\ UNCHANGED analysis_vars

NextProgram ==
    \/ Next
    \/ CheckDataFiles
    \/ GenerateData
    \/ Stage2Failed
    \/ SaveReconciledData
    \/ AnalysisSteps
    \/ RunAgain

SpecProgram == InitProgram /\ [][NextProgram]_vars

\* --------------------------------------------- main.py --analyze-only
\* The analysis run on its own over a reconciled_data.csv that an earlier
\* run of the engine left behind, large enough for the cut at
\* TOP_ANOMALIES to matter.
MaxAnalysed == 52

AnalysedTxnId(i) == "TXN_" \o ToString(i)

AnalysedSettlementId(i) == "SET_" \o ToString(i)

\* What became of a transaction: never settled; settled at half the amount
\* eleven days later; settled as expected in five days; settled as
\* expected eleven days later; refunded and never settled. The fates
\* repeat along the batch in one of these cycles.
FateCycles ==
    {<<"unsettled", "short_and_late", "settled", "late", "refunded">>,
     <<"short_and_late">>,
     <<"unsettled", "short_and_late", "late">>,
     <<"settled">>}

FateOf(cycle, i) == cycle[((i - 1) % Len(cycle)) + 1]

AnalysedAmount(i) == Cents(10000 * (1 + (i % 10)))

AnalysedTransaction(cycle, i) ==
    [transaction_id |-> AnalysedTxnId(i), timestamp |-> 240,
     amount |-> AnalysedAmount(i), currency |-> "BRL",
     status |-> IF FateOf(cycle, i) = "refunded" THEN "refunded" ELSE "captured",
     provider |-> "PayBridge", payment_method |-> "credit_card",
     country |-> "Brazil", customer_id |-> "CUST_001"]

AnalysedSettlement(cycle, i) ==
    [settlement_id |-> AnalysedSettlementId(i), transaction_id |-> AnalysedTxnId(i),
     settlement_date |-> IF FateOf(cycle, i) = "settled" THEN 370 ELSE 514,
     settled_amount |-> IF FateOf(cycle, i) = "short_and_late"
                        THEN AnalysedAmount(i) \div 2
                        ELSE calculate_expected_settlement(AnalysedAmount(i), "credit_card"),
     currency |-> "BRL", provider |-> "PayBridge"]

AnalysedTransactions(cycle, n) ==
    Frame(TransactionColumns, [i \in 1..n |-> AnalysedTransaction(cycle, i)])

\* one settlement for every transaction that was settled
AnalysedSettlements(cycle, n) ==
    Frame(SettlementColumns,
          SelectSeq([i \in 1..n |-> AnalysedSettlement(cycle, i)],
                    LAMBDA s : \E i \in 1..n :
                        /\ s.settlement_id = AnalysedSettlementId(i)
                        /\ FateOf(cycle, i) \notin {"unsettled", "refunded"}))

\* what the engine wrote for these two frames: save_reconciled_data on the
\* two values reconcile_transactions returned
Saved(txns, stls) == Outputs(returned_reconciled(txns, stls), returned_ghosts(txns, stls))

\* what the engine wrote for a batch of n transactions
AnalysedOutputs(cycle, n) ==
    Saved(AnalysedTransactions(cycle, n), AnalysedSettlements(cycle, n))

InitAnalysis ==
    /\ data_files = [transactions |-> NoFile, settlements |-> NoFile]
    /\ pc = "not_started"
    /\ raised = "none"
    /\ transactions_df = EmptyFrame
    /\ settlements_df = EmptyFrame
    /\ reconciled_df = EmptyFrame
    /\ ghost_settlements = EmptyFrame
    /\ call = NoCall
    /\ now = 1000
    /\ run = "first"
    /\ first_outputs = NoOutputs
    /\ main_pc = "analysis_only"
    /\ skip_generate = FALSE
    /\ exit_status = NaN
    /\ \/ output_files = NoOutputs
       \/ \E cycle \in FateCycles, n \in 1..MaxAnalysed :
             \/ output_files = AnalysedOutputs(cycle, n)
             \/ output_files = ReconciledOnly(AnalysedOutputs(cycle, n).reconciled)
    /\ analysis_pc = "idle"
    /\ analysis_df = EmptyFrame
    /\ analysis_results = NoResults

\* Path(reconciled_path).exists()
reconciled_data_exists == output_files.reconciled.columns # {}

\* run_analysis_only up to the call of the analysis
RunAnalysisOnly ==
    /\ main_pc = "analysis_only"
    /\ IF reconciled_data_exists
       THEN main_pc' = "analysis" /\ UNCHANGED exit_status
       ELSE Exit(1)
    /\ UNCHANGED <<data_files, pc, raised, transactions_df, settlements_df,
                   reconciled_df, ghost_settlements, call, now, run, first_outputs,
                   skip_generate, output_files, analysis_vars>>

NextAnalysis ==
    \/ RunAnalysisOnly
    \/ AnalysisSteps

SpecAnalysis == InitAnalysis /\ [][NextAnalysis]_vars


\* ================================================================ claims
InputTransactions == data_files.transactions.rows

InputSettlements == data_files.settlements.rows

InputTransactionIds == {InputTransactions[i].transaction_id : i \in 1..Len(InputTransactions)}

InputSettlementIds == {InputSettlements[j].settlement_id : j \in 1..Len(InputSettlements)}

UniqueTransactionIds == Cardinality(InputTransactionIds) = Len(InputTransactions)

UniqueSettlementIds == Cardinality(InputSettlementIds) = Len(InputSettlements)

\* the settlements (by position) that reference transaction identifier id
SettlementsReferencing(id) ==
    {j \in 1..Len(InputSettlements) : InputSettlements[j].transaction_id = id}

AtMostOneSettlementPerTransaction ==
    \A id \in InputTransactionIds : Cardinality(SettlementsReferencing(id)) <= 1

\* the reconciled records (by position) that carry transaction identifier id
RecordsOf(id) ==
    {k \in 1..Len(reconciled_df.rows) : reconciled_df.rows[k].transaction_id = id}

\* the reconciled records (by position) that carry settlement identifier sid
RecordsWithSettlement(sid) ==
    {k \in 1..Len(reconciled_df.rows) : reconciled_df.rows[k].settlement_id = <<sid>>}

Returned == pc = "returned"

Classified == pc \in {"identify_ghost_settlements", "expected_settlement_date", "returned"}

DiscrepanciesCalculated ==
    pc \in {"detect_timing_anomalies", "classify_settlement_status",
            "identify_ghost_settlements", "expected_settlement_date", "returned"}

GhostsIdentified == pc \in {"expected_settlement_date", "returned"}

Records == {reconciled_df.rows[k] : k \in 1..Len(reconciled_df.rows)}

\* C1: when transaction identifiers are unique and no transaction is
\* referenced by more than one settlement, the reconciled output has exactly
\* one record per input transaction, carrying its identifier, and no record
\* with another identifier, with or without a settlement.
C1_OneRecordPerTransaction ==
    (Returned /\ UniqueTransactionIds /\ AtMostOneSettlementPerTransaction) =>
        /\ \A id \in InputTransactionIds : Cardinality(RecordsOf(id)) = 1
        /\ \A r \in Records : r.transaction_id \in InputTransactionIds
        /\ Len(reconciled_df.rows) = Len(InputTransactions)

C1_Witness ==
    /\ Returned /\ UniqueTransactionIds /\ AtMostOneSettlementPerTransaction
    /\ Len(InputTransactions) = 2
    /\ \E r \in Records : notna(r.settlement_id)
    /\ \E r \in Records : isna(r.settlement_id)

\* C2: for every settlement collection, also one in which several
\* settlements reference the same transaction, no transaction_id occurs
\* more than once in the reconciled output.
C2_NoDuplicateTransactionIds ==
    Returned => \A id \in InputTransactionIds : Cardinality(RecordsOf(id)) <= 1

\* C3: with unique settlement identifiers, every input settlement
\* identifier is either attached to exactly one reconciled record or is in
\* the ghost output, never both and never neither.
C3_SettlementPartition ==
    (Returned /\ UniqueSettlementIds) =>
        LET attached == {r.settlement_id[1] : r \in {x \in Records : notna(x.settlement_id)}}
            ghosts == ColumnValues(ghost_settlements, "settlement_id")
        IN  /\ attached \cap ghosts = {}
            /\ attached \cup ghosts = InputSettlementIds
            /\ \A sid \in attached : Cardinality(RecordsWithSettlement(sid)) = 1

C3_Witness ==
    /\ Returned /\ UniqueSettlementIds
    /\ Len(InputSettlements) = 2
    /\ Len(ghost_settlements.rows) = 1
    /\ \E r \in Records : notna(r.settlement_id)

\* C4: the ghost output is exactly the input settlements whose
\* transaction_id is no input transaction's identifier, in input order, each
\* tagged anomaly_type = ghost_settlement; no reconciled record carries the
\* identifier of such a settlement.
C4_GhostsAreOrphans ==
    GhostsIdentified =>
        LET IsOrphan(s) == s.transaction_id \notin InputTransactionIds
            orphans == SelectSeq(InputSettlements, IsOrphan)
        IN  /\ Len(ghost_settlements.rows) = Len(orphans)
            /\ \A j \in 1..Len(orphans) :
                  /\ ghost_settlements.rows[j].anomaly_type = "ghost_settlement"
                  /\ WithoutColumn(ghost_settlements.rows[j], "anomaly_type") = orphans[j]
                  /\ RecordsWithSettlement(orphans[j].settlement_id) = {}

C4_Witness ==
    /\ GhostsIdentified
    /\ Len(InputSettlements) = 2
    /\ Len(ghost_settlements.rows) = 1
    /\ ghost_settlements.rows[1].transaction_id = GhostTxnId
    /\ \E r \in Records : notna(r.settlement_id)

SettlementStatuses ==
    {"matched", "missing", "missing_expected", "discrepancy", "not_applicable"}

\* C5: after classification every reconciled record has a settlement_status
\* that is one of matched, missing, missing_expected, discrepancy,
\* not_applicable, whatever its lifecycle status, settlement and discrepancy.
C5_StatusInClosedSet ==
    Classified =>
        /\ "settlement_status" \in reconciled_df.columns
        /\ \A r \in Records :
              /\ "settlement_status" \in DOMAIN r
              /\ r.settlement_status \in SettlementStatuses

C5_Witness ==
    /\ Classified
    /\ \E r \in Records :
          /\ r.status = "pending"
          /\ notna(r.settlement_id)
          /\ isna(r.discrepancy_percent)

\* C6: a record whose lifecycle status is authorized or declined is
\* not_applicable, with or without a settlement and whatever its discrepancy.
C6_LifecycleExclusionFirst ==
    Classified =>
        \A r \in Records :
            r.status \in {"authorized", "declined"} => r.settlement_status = "not_applicable"

C6_Witness ==
    /\ Classified
    /\ \E r \in Records :
          /\ r.status = "declined"
          /\ notna(r.settlement_id)
          /\ r.expected_settled_amount - r.settled_amount[1] > 10 * Cents(100)
          /\ r.settlement_status = "not_applicable"

\* C7: a record that is neither authorized nor declined and has no
\* settlement is missing when captured, missing_expected when refunded or
\* chargedback, and not_applicable for any other lifecycle status.
C7_MissingSettlementOutcome ==
    Classified =>
        \A r \in Records :
            (r.status \notin {"authorized", "declined"} /\ isna(r.settlement_id)) =>
                r.settlement_status =
                    CASE r.status = "captured" -> "missing"
                      [] r.status \in {"refunded", "chargedback"} -> "missing_expected"
                      [] OTHER -> "not_applicable"

C7_Witness ==
    /\ Classified
    /\ \E r \in Records : r.status = "captured" /\ isna(r.settlement_id)
    /\ \E r \in Records : r.status = "refunded" /\ isna(r.settlement_id)
                            /\ r.settlement_status = "missing_expected"

\* |discrepancy_amount| > 1.0 and |discrepancy_percent| > 1.0 of a record,
\* from its own fields (amounts in 1/1000 units, percent as a fraction)
ExceedsBothTolerances(r) ==
    /\ notna(r.discrepancy_amount)
    /\ notna(r.discrepancy_percent)
    /\ (r.discrepancy_amount[1] > 1000 \/ r.discrepancy_amount[1] < -1000)
    /\ \/ r.discrepancy_percent[1].n > r.discrepancy_percent[1].d
       \/ -r.discrepancy_percent[1].n > r.discrepancy_percent[1].d

C9_DiscrepancyPresentIffSettled ==
    DiscrepanciesCalculated =>
        \A r \in Records :
            /\ notna(r.discrepancy_amount) <=> notna(r.settlement_id)
            /\ notna(r.discrepancy_percent) <=> notna(r.settlement_id)

\* C9 amended: discrepancy_amount is non-null exactly when settlement_id is
\* non-null; discrepancy_percent is non-null exactly when settlement_id is
\* non-null and expected_settled_amount and discrepancy_amount are not both
\* zero (0/0 is NaN).
C9_DiscrepancyPresentIffSettledUnlessZeroByZero ==
    DiscrepanciesCalculated =>
        \A r \in Records :
            /\ notna(r.discrepancy_amount) <=> notna(r.settlement_id)
            /\ notna(r.discrepancy_percent) <=>
                  /\ notna(r.settlement_id)
                  /\ ~(r.expected_settled_amount = 0 /\ r.discrepancy_amount = <<0>>)

C9_Witness ==
    /\ DiscrepanciesCalculated
    /\ \E r \in Records :
          /\ notna(r.settlement_id)
          /\ r.amount = 0
          /\ r.expected_settled_amount = 0
          /\ r.settled_amount = <<0>>
          /\ isna(r.discrepancy_percent)
          /\ notna(r.discrepancy_amount)

\* the fraction f has exactly the value num / den (den # 0): den is a
\* multiple g of f.d, and num is the same multiple of f.n
IsQuotient(f, num, den) ==
    /\ f.d > 0
    /\ den % f.d = 0
    /\ f.n * (den \div f.d) = num

\* C10: for every record with a non-null settled amount, discrepancy_amount
\* is expected_settled_amount - settled_amount (signed) and
\* discrepancy_percent is exactly discrepancy_amount / expected_settled_amount
\* * 100 (no rounding), wherever that quotient is defined.
C10_DiscrepancyArithmetic ==
    DiscrepanciesCalculated =>
        \A r \in Records :
            notna(r.settled_amount) =>
                /\ r.discrepancy_amount = <<r.expected_settled_amount - r.settled_amount[1]>>
                /\ r.expected_settled_amount # 0 =>
                      /\ notna(r.discrepancy_percent)
                      /\ IsQuotient(r.discrepancy_percent[1],
                                    r.discrepancy_amount[1] * 100,
                                    r.expected_settled_amount)

\* the provider paid more than expected and the percentage is not a
\* multiple of 0.01
C10_Witness ==
    /\ DiscrepanciesCalculated
    /\ \E r \in Records :
          /\ notna(r.settled_amount)
          /\ r.settled_amount[1] > r.expected_settled_amount
          /\ r.discrepancy_amount[1] < 0
          /\ r.discrepancy_percent[1].n < 0
          /\ r.discrepancy_percent[1].d > 0
          /\ 100 % r.discrepancy_percent[1].d # 0

\* ------------------------------------------------------------------ C11
\* C11: once the discrepancies are calculated, every record that has a
\* settlement and an expected_settled_amount of zero has a null
\* discrepancy_percent, whatever its settled amount.
C11_ZeroExpectedGivesNullPercent ==
    DiscrepanciesCalculated =>
        \A r \in Records :
            (notna(r.settlement_id) /\ r.expected_settled_amount = 0)
                => isna(r.discrepancy_percent)

\* ------------------------------------------------------------------ C12
TimingDetected ==
    pc \in {"classify_settlement_status", "identify_ghost_settlements",
            "expected_settlement_date", "returned"}

\* threshold_days of the specification, per payment method
ThresholdDays(payment_method) ==
    CASE payment_method \in {"credit_card", "debit_card"} -> 5
      [] payment_method = "bank_transfer" -> 10
      [] payment_method = "cash_voucher" -> 8
      [] OTHER -> 7

\* C12: timing_anomaly is true exactly when days_to_settle is present and
\* strictly greater than the threshold of the payment method (5 cards,
\* 10 bank_transfer, 8 cash_voucher, 7 otherwise).
C12_TimingAnomalyIffBeyondThreshold ==
    TimingDetected =>
        \A r \in Records :
            r.timing_anomaly <=>
                (notna(r.days_to_settle)
                 /\ r.days_to_settle[1] > ThresholdDays(r.payment_method))

\* a bank_transfer settled after exactly 10 days is not an anomaly
C12_Witness ==
    /\ TimingDetected
    /\ \E r \in Records :
          /\ r.payment_method = "bank_transfer"
          /\ r.days_to_settle = <<10>>
          /\ ~r.timing_anomaly

\* ------------------------------------------------------------------ C13
\* d is the floor of hours / 24
IsFloorOfDays(d, hours) == d * 24 <= hours /\ hours < (d + 1) * 24

\* C13: days_to_settle is the floor of settlement_date - timestamp in whole
\* days when a settlement is attached, and null otherwise.
C13_DaysToSettleIsFloor ==
    TimingDetected =>
        \A r \in Records :
            IF notna(r.settlement_id)
            THEN /\ notna(r.days_to_settle)
                 /\ IsFloorOfDays(r.days_to_settle[1],
                                  r.settlement_date[1] - r.timestamp)
            ELSE isna(r.days_to_settle)

\* a settlement dated two hours before the transaction gives -1
C13_Witness ==
    /\ TimingDetected
    /\ \E r \in Records :
          /\ notna(r.settlement_id)
          /\ r.settlement_date[1] - r.timestamp = -2
          /\ r.days_to_settle = <<-1>>

\* ------------------------------------------------------------------ C14
\* (min_days + max_days) / 2 days of the specification, in hours
AverageSlaHours(payment_method) ==
    CASE payment_method \in {"credit_card", "debit_card"} -> 60
      [] payment_method = "bank_transfer" -> 144
      [] payment_method = "cash_voucher" -> 96
      [] OTHER -> 84

\* C14: every returned record, with or without a settlement, carries
\* expected_settlement_date = timestamp + (min_days + max_days) / 2 days,
\* the half day kept.
C14_ExpectedSettlementDate ==
    Returned =>
        \A r \in Records :
            /\ "expected_settlement_date" \in DOMAIN r
            /\ r.expected_settlement_date
                   = r.timestamp + AverageSlaHours(r.payment_method)

\* an unsettled card transaction is expected two and a half days later
C14_Witness ==
    /\ Returned
    /\ \E r \in Records :
          /\ isna(r.settlement_id)
          /\ r.payment_method = "credit_card"
          /\ r.expected_settlement_date = r.timestamp + 60

\* ------------------------------------------------------------------ C15
ExpectedAmountsCalculated ==
    pc \in {"match_settlements_exact", "calculate_discrepancies",
            "detect_timing_anomalies", "classify_settlement_status",
            "identify_ghost_settlements", "expected_settlement_date", "returned"}

\* the transactions with their expected amounts, then the reconciled records
PricedRecords ==
    IF pc = "match_settlements_exact"
    THEN {transactions_df.rows[k] : k \in 1..Len(transactions_df.rows)}
    ELSE Records

CardMethods == {"credit_card", "debit_card"}

SupportedMethods == CardMethods \cup {"bank_transfer", "cash_voucher"}

\* fee = amount * permille / 1000 + fixed, stated without a division
\* (amounts and fees in thousandths of a currency unit)
IsFee(fee, amount, permille, fixed) == fee * 1000 = amount * permille + fixed * 1000

\* C15: the fee is amount * 2.9% + 0.30 for cards, amount * 1.5% for
\* bank_transfer, amount * 3.5% for cash_voucher; the expected settlement is
\* amount - fee; at amount zero the card fee is 0.30 and the expected
\* settlement -0.30, bank_transfer and cash_voucher give 0 and 0.
C15_FeeArithmetic ==
    ExpectedAmountsCalculated =>
        \A r \in PricedRecords :
            LET fee == calculate_fee(r.amount, r.payment_method)
            IN  /\ r.payment_method \in CardMethods => IsFee(fee, r.amount, 29, 300)
                /\ r.payment_method = "bank_transfer" => IsFee(fee, r.amount, 15, 0)
                /\ r.payment_method = "cash_voucher" => IsFee(fee, r.amount, 35, 0)
                /\ r.payment_method \in SupportedMethods =>
                       /\ r.expected_settled_amount = r.amount - fee
                       /\ calculate_expected_settlement(r.amount, r.payment_method)
                              = r.amount - fee
                /\ (r.amount = 0 /\ r.payment_method \in CardMethods) =>
                       fee = 300 /\ r.expected_settled_amount = -300
                /\ (r.amount = 0 /\ r.payment_method \in {"bank_transfer", "cash_voucher"}) =>
                       fee = 0 /\ r.expected_settled_amount = 0

\* a zero-amount card transaction expects -0.30, and a card transaction of
\* 1000.00 expects 970.70
C15_Witness ==
    /\ ExpectedAmountsCalculated
    /\ \E r \in PricedRecords :
          /\ r.payment_method \in CardMethods
          /\ \/ r.amount = 0 /\ r.expected_settled_amount = -300
             \/ r.amount = Cents(100000) /\ r.expected_settled_amount = 970700

\* ------------------------------------------------------------------ C16
\* C16 as stated: for every supported payment method and every non-negative
\* amount, zero included, expected_settled_amount is strictly less than
\* the amount.
C16_ExpectedStrictlyLessThanAmount ==
    ExpectedAmountsCalculated =>
        \A r \in PricedRecords :
            r.payment_method \in SupportedMethods
                => r.expected_settled_amount < r.amount

\* C16 amended: expected_settled_amount is strictly less than the amount for
\* every positive amount, and at amount zero for cards; at amount zero it
\* equals the amount (both zero) for bank_transfer and cash_voucher.
C16_ExpectedLessThanAmountUnlessZeroPercentOnly ==
    ExpectedAmountsCalculated =>
        \A r \in PricedRecords :
            r.payment_method \in SupportedMethods =>
                IF r.amount > 0 \/ r.payment_method \in CardMethods
                THEN r.expected_settled_amount < r.amount
                ELSE r.expected_settled_amount = r.amount /\ r.amount = 0

\* a zero-amount cash_voucher transaction expects exactly zero
C16_Witness ==
    /\ ExpectedAmountsCalculated
    /\ \E r \in PricedRecords :
          /\ r.payment_method = "cash_voucher"
          /\ r.amount = 0
          /\ r.expected_settled_amount = 0

\* ------------------------------------------------------------------ C17
KnownCurrencies == {"BRL", "MXN", "COP", "CLP", "USD"}

UnrecognizedInput(t) ==
    t.payment_method \notin SupportedMethods \/ t.currency \notin KnownCurrencies

HasUnrecognizedInput ==
    /\ data_files.transactions.exists
    /\ data_files.settlements.exists
    /\ \E i \in 1..Len(InputTransactions) : UnrecognizedInput(InputTransactions[i])

\* C17: an unrecognized payment method or currency raises nothing: the fee
\* is the card fee, the SLA triple is (2, 5, 7), the exchange rate is 1.0,
\* and the run returns with a classified record for the transaction (exactly
\* one where at most one settlement references it).
C17_UnrecognizedFallsBackToDefaults ==
    HasUnrecognizedInput =>
        /\ pc # "raised"
        /\ raised = "none"
        /\ \A i \in 1..Len(InputTransactions) :
              LET t == InputTransactions[i]
              IN  /\ t.payment_method \notin SupportedMethods =>
                        /\ IsFee(calculate_fee(t.amount, t.payment_method),
                                 t.amount, 29, 300)
                        /\ get_settlement_timing(t.payment_method) = <<2, 5, 7>>
                  /\ t.currency \notin KnownCurrencies =>
                        get_exchange_rate(t.currency) = 100000
                  /\ (Returned /\ UnrecognizedInput(t)) =>
                        /\ Cardinality(RecordsOf(t.transaction_id)) >= 1
                        /\ Cardinality(SettlementsReferencing(t.transaction_id)) <= 1
                               => Cardinality(RecordsOf(t.transaction_id)) = 1
                        /\ \A k \in RecordsOf(t.transaction_id) :
                              reconciled_df.rows[k].settlement_status
                                  \in SettlementStatuses

\* a run with a crypto transaction, and one with an ARS transaction, returns
C17_Witness ==
    /\ Returned
    /\ \E r \in Records :
          /\ \/ r.payment_method = "crypto"
             \/ r.currency = "ARS"
          /\ r.settlement_status \in SettlementStatuses

InputFileAbsent == ~data_files.transactions.exists \/ ~data_files.settlements.exists

EngineStarted == pc # "not_started"

\* C19: with an input file absent, reconcile_transactions stops in load_data
\* with FileNotFoundError, runs no stage and returns nothing; and
\* run_full_pipeline with --skip-generate exits with status 1 without
\* starting the reconciliation.
C19_MissingFileIsFatal ==
    InputFileAbsent =>
        /\ EngineStarted =>
              /\ pc \in {"load_data", "raised"}
              /\ pc = "raised" => raised = "FileNotFoundError"
              /\ call = NoCall
              /\ reconciled_df = EmptyFrame
              /\ ghost_settlements = EmptyFrame
        /\ (main_pc # "direct" /\ skip_generate) =>
              /\ ~EngineStarted
              /\ main_pc \in {"stage1", "exited"}
              /\ main_pc = "exited" => exit_status = <<1>>
              /\ ~output_files.exists

\* the settlements file alone is absent and load_data has raised
C19_Witness ==
    /\ data_files.transactions.exists
    /\ Len(data_files.transactions.rows) >= 1
    /\ ~data_files.settlements.exists
    /\ pc = "raised"
    /\ raised = "FileNotFoundError"

\* ------------------------------------------------------------------ C20
LoadedTransactions == Frame(TransactionColumns, InputTransactions)

LoadedSettlements == Frame(SettlementColumns, InputSettlements)

C21_TotalOverWellFormedInput ==
    ~InputFileAbsent => pc # "raised"

\* ------------------------------------------------------------------ C22
\* the input transaction a reconciled record r was made from
TransactionOf(r) ==
    CHOOSE i \in 1..Len(InputTransactions) :
        InputTransactions[i].transaction_id = r.transaction_id

\* the input settlement with identifier sid
SettlementOf(sid) ==
    CHOOSE j \in 1..Len(InputSettlements) : InputSettlements[j].settlement_id = sid

Matched == pc \in {"calculate_discrepancies"} \/ DiscrepanciesCalculated

\* C22: a reconciled record has the provider and the currency of its
\* transaction, whatever those of the settlement; a settlement is attached
\* exactly on equal transaction identifiers; the settlement contributes
\* its identifier, date and settled amount and nothing else.
C22_TransactionProviderAndCurrencyKept ==
    Matched =>
        /\ "provider_settlement" \notin reconciled_df.columns
        /\ "currency_settlement" \notin reconciled_df.columns
        /\ {"settlement_id", "settlement_date", "settled_amount"} \subseteq reconciled_df.columns
        /\ \A r \in Records :
              LET t == InputTransactions[TransactionOf(r)]
              IN  /\ DOMAIN r = reconciled_df.columns
                  /\ r.provider = t.provider
                  /\ r.currency = t.currency
                  /\ IF isna(r.settlement_id)
                     THEN /\ SettlementsReferencing(r.transaction_id) = {}
                          /\ isna(r.settlement_date)
                          /\ isna(r.settled_amount)
                     ELSE LET s == InputSettlements[SettlementOf(r.settlement_id[1])]
                          IN  /\ s.transaction_id = r.transaction_id
                              /\ r.settlement_date = <<s.settlement_date>>
                              /\ r.settled_amount = <<s.settled_amount>>
        /\ pc = "calculate_discrepancies" =>
              reconciled_df.columns =
                  TransactionColumns \cup {"expected_settled_amount", "settlement_id",
                                           "settlement_date", "settled_amount"}

\* a record matched to a settlement that names another provider and currency
C22_Witness ==
    /\ Returned
    /\ \E r \in Records :
          /\ notna(r.settlement_id)
          /\ InputSettlements[SettlementOf(r.settlement_id[1])].provider = "LatamPay"
          /\ InputSettlements[SettlementOf(r.settlement_id[1])].currency = "MXN"
          /\ r.provider = "PayBridge"
          /\ r.currency = "BRL"

\* ------------------------------------------------------------------ C23
\* the SLA triple of the specification, per payment method
SlaTriple(payment_method) ==
    CASE payment_method \in CardMethods -> <<2, 3, 5>>
      [] payment_method = "bank_transfer" -> <<5, 7, 10>>
      [] payment_method = "cash_voucher" -> <<3, 5, 8>>
      [] OTHER -> <<2, 5, 7>>

\* C23: for every payment method of a batch, get_settlement_timing returns
\* three positive integers with min_days < max_days <= threshold_days, the
\* threshold strictly above max_days for the supported methods, and the
\* triples are (2,3,5), (5,7,10), (3,5,8) and (2,5,7) otherwise.
C23_SettlementTimingTriples ==
    \A i \in 1..Len(InputTransactions) :
        LET method == InputTransactions[i].payment_method
            timing == get_settlement_timing(method)
        IN  /\ Len(timing) = 3
            /\ \A k \in 1..3 : timing[k] \in Nat /\ timing[k] > 0
            /\ timing[1] < timing[2]
            /\ timing[2] <= timing[3]
            /\ method \in SupportedMethods => timing[2] < timing[3]
            /\ timing = SlaTriple(method)

\* the timing stage has looked up the default triple for a crypto payment
C23_Witness ==
    /\ TimingDetected
    /\ \E r \in Records :
          /\ r.payment_method = "crypto"
          /\ r.settlement_threshold = 7
          /\ get_settlement_timing(r.payment_method) = <<2, 5, 7>>

\* ------------------------------------------------------------------ C24
\* the matcher's output of the current run
MatcherOutput == match_settlements_exact(transactions_df, settlements_df)

DiscrepancyColumns == {"actual_settled_amount", "discrepancy_amount", "discrepancy_percent"}

TimingColumns == {"days_to_settle", "settlement_threshold", "timing_anomaly"}

\* d and t are m with the discrepancy columns and with the timing columns
\* added, both is m with both: the columns of m are in all three as in m
AddOwnColumnsOnly(m, d, t, both) ==
    /\ d.columns \ m.columns = DiscrepancyColumns
    /\ t.columns \ m.columns = TimingColumns
    /\ \A k \in 1..Len(m.rows) : \A c \in m.columns :
           /\ d.rows[k][c] = m.rows[k][c]
           /\ t.rows[k][c] = m.rows[k][c]
           /\ both.rows[k][c] = m.rows[k][c]

\* C24: on the matcher's output, calculate_discrepancies followed by
\* detect_timing_anomalies gives the records that detect_timing_anomalies
\* followed by calculate_discrepancies gives; each stage adds its own
\* columns only and leaves the other columns as they were.
C24_DiscrepancyAndTimingCommute ==
    /\ pc = "calculate_discrepancies" =>
          /\ reconciled_df = MatcherOutput
          /\ detect_timing_anomalies(calculate_discrepancies(reconciled_df))
                 = calculate_discrepancies(detect_timing_anomalies(reconciled_df))
    /\ pc = "classify_settlement_status" =>
          /\ reconciled_df = calculate_discrepancies(detect_timing_anomalies(MatcherOutput))
          /\ AddOwnColumnsOnly(MatcherOutput, calculate_discrepancies(MatcherOutput),
                               detect_timing_anomalies(MatcherOutput), reconciled_df)

\* both stages have run on a late settlement with a large discrepancy
C24_Witness ==
    /\ pc = "classify_settlement_status"
    /\ \E r \in Records :
          /\ r.timing_anomaly
          /\ notna(r.discrepancy_amount)
          /\ r.discrepancy_amount[1] > Cents(100)
    /\ reconciled_df = calculate_discrepancies(detect_timing_anomalies(MatcherOutput))

\* ------------------------------------------------------------------ C25
\* the frames a stage was started with
StartedWith(stage) == call.before

MatcherColumns == {"settlement_id", "settlement_date", "settled_amount"}

\* C25: every stage starts on the completed work of the stages it follows:
\* the expected amounts on the loaded transactions, the matcher on the
\* priced transactions and the loaded settlements, the discrepancy and the
\* timing stage on the matcher's output, the classification on a frame that
\* has both the discrepancy and the timing columns, the ghost detection on
\* matched records.
C25_StagesInOrder ==
    /\ call.stage = "calculate_expected_amounts" =>
          StartedWith(call.stage) = <<LoadedTransactions>>
    /\ call.stage = "match_settlements_exact" =>
          /\ StartedWith(call.stage)[1] = calculate_expected_amounts(LoadedTransactions)
          /\ StartedWith(call.stage)[2] = LoadedSettlements
    /\ call.stage \in {"calculate_discrepancies", "detect_timing_anomalies"} =>
          MatcherColumns \subseteq StartedWith(call.stage)[1].columns
    /\ call.stage = "classify_settlement_status" =>
          /\ MatcherColumns \subseteq StartedWith(call.stage)[1].columns
          /\ DiscrepancyColumns \subseteq StartedWith(call.stage)[1].columns
          /\ TimingColumns \subseteq StartedWith(call.stage)[1].columns
    /\ call.stage = "identify_ghost_settlements" =>
          /\ MatcherColumns \subseteq StartedWith(call.stage)[1].columns
          /\ "settlement_status" \in StartedWith(call.stage)[1].columns
    /\ call.stage = "none" => pc \in {"load_data", "calculate_expected_amounts", "raised"}

\* the classification has run on records carrying discrepancy and timing
\* values
C25_Witness ==
    /\ call.stage = "classify_settlement_status"
    /\ pc = "identify_ghost_settlements"
    /\ Len(call.before[1].rows) >= 2
    /\ TimingColumns \cup DiscrepancyColumns \subseteq call.before[1].columns

\* ------------------------------------------------------------------ C26
\* the reconciled records as classify_settlement_status returned them (the
\* frame handed to the ghost detection right after)
ClassifiedRecords == call.before[1]

\* C26: from the end of the classification to the return of the run, the
\* reconciled records stay what the classification returned: no field is
\* added or changed.
C26_ImmutableAfterClassification ==
    (GhostsIdentified /\ call.stage = "identify_ghost_settlements") =>
        reconciled_df = ClassifiedRecords

\* ------------------------------------------------------------------ C27
InPipeline == main_pc # "direct"

AnalysisStarted == main_pc \in {"stage3", "complete"} \/ analysis_pc # "idle"

\* C27: in run_full_pipeline the reconciliation starts only with both data
\* files in place (generated, or found when generation is skipped), the
\* outputs are saved only from a reconciliation that returned, the analysis
\* starts only after both outputs of that run are saved, and a stage that
\* raises ends the process with status 1 before any later stage.
C27_PipelineStagesInOrder ==
    InPipeline =>
        /\ EngineStarted => check_data_files_exist
        /\ output_files # NoOutputs => pc = "returned"
        /\ output_files.exists => output_files = Outputs(reconciled_df, ghost_settlements)
        /\ AnalysisStarted => output_files.exists /\ pc = "returned"
        /\ pc = "raised" => main_pc \in {"stage2", "exited"} /\ output_files = NoOutputs
        /\ main_pc = "exited" <=> exit_status = <<1>>
        /\ main_pc # "exited" => exit_status = NaN
        /\ (main_pc = "exited" /\ ~EngineStarted) => output_files = NoOutputs

\* the reconciliation raised inside the pipeline and the process has exited
C27_Witness ==
    /\ InPipeline
    /\ main_pc = "exited"
    /\ pc = "raised"
    /\ exit_status = <<1>>
    /\ output_files = NoOutputs

\* ---------------------------------------------------------------- C28
AnomaliesGenerated ==
    analysis_pc \in {"generate_insights_summary", "save", "returned", "raised"}

\* the reconciled collection the analysis was given
AnalysedCollection == load_reconciled_data(output_files.reconciled)

NonIncreasing(kept) ==
    \A k \in 1..(Len(kept) - 1) : kept[k].amount_usd >= kept[k + 1].amount_usd

Positions(seq) == {seq[k].anomaly_id : k \in 1..Len(seq)}

\* kept holds the entries of generated with the largest amount_usd: each
\* entry of kept is one of generated, none twice, as many as there are up
\* to TOP_ANOMALIES, and no entry left out exceeds an entry kept
LargestOf(kept, generated) ==
    /\ \A k \in 1..Len(kept) : generated[kept[k].anomaly_id] = kept[k]
    /\ Cardinality(Positions(kept)) = Len(kept)
    /\ Len(kept) = IF Len(generated) < TOP_ANOMALIES THEN Len(generated) ELSE TOP_ANOMALIES
    /\ \A g \in (1..Len(generated)) \ Positions(kept) :
          \A k \in 1..Len(kept) : generated[g].amount_usd <= kept[k].amount_usd

AnomalyTypes == {"missing_settlement", "fee_discrepancy", "timing_delay"}

\* C28: generate_prioritized_anomalies returns at most 50 anomalies, in
\* non-increasing order of amount_usd, and they are the ones with the
\* largest amount_usd among all the missing-settlement, fee-discrepancy and
\* timing-delay anomalies generated for the collection.
C28_TopAnomaliesByImpact ==
    AnomaliesGenerated =>
        /\ Len(analysis_results.anomalies[1]) <= TOP_ANOMALIES
        /\ NonIncreasing(analysis_results.anomalies[1])
        /\ LargestOf(analysis_results.anomalies[1], all_anomalies(AnalysedCollection))
        /\ \A k \in 1..Len(analysis_results.anomalies[1]) :
              analysis_results.anomalies[1][k].anomaly_type \in AnomalyTypes

MoreGeneratedThanKept(kept, generated) ==
    /\ Len(generated) > TOP_ANOMALIES
    /\ Len(kept) = TOP_ANOMALIES
    /\ kept[1].amount_usd > kept[TOP_ANOMALIES].amount_usd
    /\ \E k \in 1..Len(kept) : kept[k].anomaly_id > TOP_ANOMALIES
    /\ {generated[g].anomaly_type : g \in 1..Len(generated)} = AnomalyTypes

\* more than fifty anomalies of all three kinds were generated, of different
\* amounts, and one appended after the fiftieth is among those returned
C28_Witness ==
    /\ analysis_pc = "returned"
    /\ MoreGeneratedThanKept(analysis_results.anomalies[1], all_anomalies(AnalysedCollection))

\* ---------------------------------------------------------------- C29
ReconciledFields ==
    {"settlement_status", "discrepancy_amount", "discrepancy_percent",
     "timing_anomaly", "days_to_settle"}

FieldsOf(df) ==
    [i \in 1..Len(df.rows) |-> [f \in ReconciledFields |-> df.rows[i][f]]]

AnalysisFunctionCalled ==
    analysis_pc \notin {"idle", "load_reconciled_data"}

\* C29: the analysis functions leave settlement_status, discrepancy_amount,
\* discrepancy_percent, timing_anomaly and days_to_settle of every record
\* they are given as they were, and the number of records they report as
\* analysed is the number of reconciled records.
C29_AnalysisKeepsReconciledFields ==
    AnalysisFunctionCalled =>
        /\ FieldsOf(analysis_df) = FieldsOf(AnalysedCollection)
        /\ analysis_results.metrics # NaN =>
              analysis_results.metrics[1].total_transactions
                  = Len(output_files.reconciled.rows)
        /\ analysis_results.insights # NaN =>
              analysis_results.insights[1].total_transactions_analyzed
                  = Len(output_files.reconciled.rows)

\* all four functions were called on a collection with an unsettled record
\* and a discrepancy, and they did write to the frame (amount_usd, date
\* and week were added to it)
C29_Witness ==
    /\ analysis_pc = "returned"
    /\ {"amount_usd", "date", "week"} \subseteq analysis_df.columns
    /\ {"amount_usd", "date", "week"} \cap output_files.reconciled.columns = {}
    /\ \E i \in 1..Len(analysis_df.rows) : isna(analysis_df.rows[i].days_to_settle)
    /\ \E i \in 1..Len(analysis_df.rows) :
          analysis_df.rows[i].settlement_status = "discrepancy"
    /\ analysis_results.insights[1].total_transactions_analyzed >= 2

\* ---------------------------------------------------------------- C30
\* other values for the fields that describe when and how a record was
\* settled
OtherTimings ==
    {[days_to_settle |-> NaN, timing_anomaly |-> FALSE,
      payment_method |-> "credit_card", settlement_date |-> NaN],
     [days_to_settle |-> <<0>>, timing_anomaly |-> FALSE,
      payment_method |-> "crypto", settlement_date |-> <<238>>],
     [days_to_settle |-> <<11>>, timing_anomaly |-> TRUE,
      payment_method |-> "credit_card", settlement_date |-> <<514>>],
     [days_to_settle |-> <<2>>, timing_anomaly |-> TRUE,
      payment_method |-> "bank_transfer", settlement_date |-> <<290>>]}

Retimed(row, other) ==
    [k \in DOMAIN row |-> IF k \in DOMAIN other THEN other[k] ELSE row[k]]

\* the two records agree on everything the claim lets the status depend on
SameAmountsAndLifecycle(r, s) ==
    /\ r.status = s.status
    /\ isna(r.settlement_id) = isna(s.settlement_id)
    /\ r.discrepancy_amount = s.discrepancy_amount
    /\ r.discrepancy_percent = s.discrepancy_percent

WithinAmountTolerance(row) ==
    ~(/\ notna(row.discrepancy_amount)
      /\ Abs(row.discrepancy_amount[1]) > discrepancy_threshold_amount * Cents(100)
      /\ notna(row.discrepancy_percent)
      /\ AbsFloatGreater(row.discrepancy_percent[1], discrepancy_threshold_percent))

LateWithinTolerance(row) ==
    /\ notna(row.settlement_id)
    /\ row.timing_anomaly
    /\ WithinAmountTolerance(row)

\* classify_settlement_status has just returned
JustClassified == pc = "identify_ghost_settlements"

StatusIgnoresTiming ==
    \A i \in 1..Len(reconciled_df.rows) :
        /\ \A other \in OtherTimings :
              classify_status(Retimed(reconciled_df.rows[i], other))
                  = reconciled_df.rows[i].settlement_status
        /\ \A j \in 1..Len(reconciled_df.rows) :
              SameAmountsAndLifecycle(reconciled_df.rows[i], reconciled_df.rows[j])
                  => reconciled_df.rows[i].settlement_status
                         = reconciled_df.rows[j].settlement_status

\* C30 as stated: the status of a record just classified is the same whatever its
\* days_to_settle, timing_anomaly, payment method and settlement date, two
\* records that agree on lifecycle status, settlement presence and both
\* discrepancy fields have the same status, and every late settlement
\* within amount tolerance is matched.
C30_StatusIgnoresTimingLateIsMatched ==
    JustClassified =>
        /\ StatusIgnoresTiming
        /\ \A i \in 1..Len(reconciled_df.rows) :
              LateWithinTolerance(reconciled_df.rows[i])
                  => reconciled_df.rows[i].settlement_status = "matched"

\* C30, amended: as above, but a late settlement within amount tolerance
\* is matched only when the transaction is neither authorized nor declined;
\* for those two lifecycle statuses the record is not_applicable.
C30_StatusIgnoresTimingLateIsMatchedIfApplicable ==
    JustClassified =>
        /\ StatusIgnoresTiming
        /\ \A i \in 1..Len(reconciled_df.rows) :
              LateWithinTolerance(reconciled_df.rows[i])
                  => reconciled_df.rows[i].settlement_status
                         = IF reconciled_df.rows[i].status \in {"authorized", "declined"}
                           THEN "not_applicable" ELSE "matched"

\* a captured transaction settled after its threshold and within amount
\* tolerance has been classified, and it is matched
C30_Witness ==
    /\ JustClassified
    /\ \E i \in 1..Len(reconciled_df.rows) :
          /\ reconciled_df.rows[i].status = "captured"
          /\ LateWithinTolerance(reconciled_df.rows[i])
          /\ reconciled_df.rows[i].days_to_settle[1]
                 > reconciled_df.rows[i].settlement_threshold
          /\ reconciled_df.rows[i].settlement_status = "matched"

====
